---- MODULE Spec2Model ----
(***************************************************************************)
(* Snapshot generation pipeline of the agency reporting platform:          *)
(* generateSnapshot (services/snapshot.service), the report route          *)
(* (routes/report.routes), the blob store (services/storage.service),      *)
(* the snapshots table with its unique constraint (db/migrations) and      *)
(* client deletion (services/client.service).                              *)
(*                                                                         *)
(* Every request runs in one of the request slots of Procs; a request is   *)
(* suspended at each await of the code, so one action is one segment of    *)
(* code between two awaits and requests interleave at those points.        *)
(*                                                                         *)
(* Spec is the generation pipeline with regeneration, report rendering     *)
(* and deletion.  SpecRoutes adds the month validation of the snapshot     *)
(* route and the preview and report routes, which call generateSnapshot    *)
(* without it.  SpecRead starts from a stored snapshot and adds            *)
(* getSnapshotData.  SpecDates and SpecChange apply the date-range and     *)
(* percentage helpers of the GA4 connector to bounded arguments;           *)
(* SpecDatesAny gives the date-range helpers any month number.  SpecLive   *)
(* is the generation pipeline with every local step scheduled fairly,      *)
(* SpecSweep one request slot with the clock running past the retention    *)
(* period.  SpecOwner is the four snapshot operations called by the owner  *)
(* of a client and by another user.  SpecToken is getValidAccessToken      *)
(* (connectors/google-auth) called concurrently on one data source.        *)
(***************************************************************************)
EXTENDS Integers, Sequences, FiniteSets, TLC

\* Number of requests the model lets the callers start.
MaxCalls == 2

Procs == {"p1", "p2"}
Users == {"u1"}
Clients == {"c1"}
Years == {2025}
Months == {3}

\* The months a caller of the routes may name in month=YYYY-MM: the current
\* month, the month after it, and a month number that is no month.
RouteMonths == {3, 4, 13}

\* The client ids a caller may name: the seeded clients and an id of no client.
RequestClients == Clients \cup {"c0"}

\* The authenticated users that send requests: the owner of the seeded clients
\* and another user.
RequestUsers == Users \cup {"u2"}

\* Optional values (string | null, T | undefined) are sequences of length <= 1.
None == <<>>
Some(x) == <<x>>

VARIABLES
    clients,        \* table clients: the ids of the rows
    dataSource,     \* table data_sources: the google_analytics row of each client
    snapshots,      \* table snapshots: a set of rows
    nextId,         \* the next value of gen_random_uuid()
    files,          \* content storage: path -> file
    clock,          \* the wall clock read by new Date()
    calls,          \* requests started so far
    deletedIds,     \* ids of the snapshot rows deleted so far (history)
    pc,             \* per request slot: the await the request is suspended at
    call,           \* per request slot: the arguments of the request
    existing,       \* generateSnapshot: const existing (the id selected, if any)
    metrics,        \* generateSnapshot: const [currentMetrics, previousMetrics]
    snapshotData,   \* generateSnapshot: const snapshotData
    storagePath,    \* generateSnapshot: const storagePath
    snapshotId,     \* report route: let snapshotId
    result,         \* per request slot: what the request returned or threw
    tz,             \* the time zone of the server process (offset from UTC, hours)
    args,           \* a helper function called on its own: its arguments
    ret,            \* a helper function called on its own: what it returned
    listed,         \* listSnapshots: const [snapshots, countResult], as they resolve
    tokenRow,       \* table data_sources: status and OAuth columns of one row
    token,          \* getValidAccessToken: const credentials, const newCredentials
    issued          \* access tokens the authorization server has issued so far

vars == <<clients, dataSource, snapshots, nextId, files, clock, calls, deletedIds,
          pc, call, existing, metrics, snapshotData, storagePath, snapshotId, result,
          tz, args, ret, listed, tokenRow, token, issued>>

----------------------------------------------------------------------------
(* Clients and data sources *)

\* clients.created_by and clients.name of the seeded clients.
CreatedBy(c) == "u1"
ClientName(c) == "Acme"

\* The states of a client's google_analytics data source that generateSnapshot
\* distinguishes: no active row, an active row without a selected property,
\* an active row with external_account_id set.
DataSourceStates == {"none", "no_account", "connected"}

----------------------------------------------------------------------------
(* Metrics and the comparison engine *)

RECURSIVE Gcd(_, _)
Gcd(a, b) == IF b = 0 THEN a ELSE Gcd(b, a % b)

Abs(n) == IF n < 0 THEN -n ELSE n

\* An exact fraction num/den in lowest terms, den > 0.
Frac(num, den) ==
    LET g == Gcd(Abs(num), Abs(den))
        s == IF den < 0 THEN -1 ELSE 1
    IN  [num |-> (s * num) \div g, den |-> (s * den) \div g]

\* calculateChange: ((current - previous) / previous) * 100, no rounding.
calculateChange(current, previous) ==
    IF previous = 0
    THEN (IF current > 0 THEN Frac(100, 1) ELSE Frac(0, 1))
    ELSE Frac((current - previous) * 100, previous)

\* The aggregate figures of GA4Metrics, as fetchGA4Metrics returns them.
Metrics(s, u, n, pv, d, b, au, er, ued) ==
    [sessions |-> s, users |-> u, newUsers |-> n, pageviews |-> pv,
     avgSessionDuration |-> d, bounceRate |-> b, activeUsers |-> au,
     engagementRate |-> er, userEngagementDuration |-> ued]

\* The figures of a source block that have an entry in the changes block of the
\* SnapshotData type shared by the API, the renderer and the web client.
TrackedMetrics ==
    {"sessions", "users", "newUsers", "pageviews", "avgSessionDuration",
     "bounceRate", "activeUsers", "engagementRate", "userEngagementDuration"}

\* What the two fetches of one generation may return: the upstream's figures
\* for the month and for the month before (none at all in the second report:
\* no row in the response, every figure parsed from "0").
UpstreamReports ==
    { [current |-> Metrics(150, 120, 60, 300, 90, 40, 110, 60, 4000),
       previous |-> Metrics(100, 80, 40, 250, 60, 50, 70, 50, 2500)],
      [current |-> Metrics(80, 64, 32, 200, 75, 45, 60, 55, 1800),
       previous |-> Metrics(0, 0, 0, 0, 0, 0, 0, 0, 0)] }

----------------------------------------------------------------------------
(* Calendar dates and the period calculator *)

\* The offsets from UTC, in hours, of the zones the server process may run in
\* (local time = UTC + offset; daylight saving is left out).
TimeZones == {-5, 0, 1}

IsLeap(y) == (y % 4 = 0 /\ y % 100 # 0) \/ y % 400 = 0

DaysInMonth(y, m) ==
    IF m = 2 THEN (IF IsLeap(y) THEN 29 ELSE 28)
    ELSE IF m \in {4, 6, 9, 11} THEN 30 ELSE 31

\* The number of the day <<y, m, d>> counted from 1970-01-01 (proleptic Gregorian).
DaysFromCivil(y, m, d) ==
    LET yy == IF m <= 2 THEN y - 1 ELSE y
        era == yy \div 400
        yoe == yy - era * 400
        mp == IF m > 2 THEN m - 3 ELSE m + 9
        doy == (153 * mp + 2) \div 5 + d - 1
        doe == yoe * 365 + yoe \div 4 - yoe \div 100 + doy
    IN  era * 146097 + doe - 719468

\* The calendar day <<y, m, d>> with the given day number.
CivilFromDays(z) ==
    LET zz == z + 719468
        era == zz \div 146097
        doe == zz - era * 146097
        yoe == (doe - doe \div 1460 + doe \div 36524 - doe \div 146096) \div 365
        doy == doe - (365 * yoe + yoe \div 4 - yoe \div 100)
        mp == (5 * doy + 2) \div 153
        d == doy - (153 * mp + 2) \div 5 + 1
        m == IF mp < 10 THEN mp + 3 ELSE mp - 9
        y == yoe + era * 400
    IN  <<IF m <= 2 THEN y + 1 ELSE y, m, d>>

\* new Date(year, monthIndex, day): midnight of that day in the zone of the
\* process, as an instant in hours since the epoch. Month indexes outside 0..11
\* and day 0 roll over into the neighbouring months.
NewDate(year, monthIndex, day) ==
    (DaysFromCivil(year + monthIndex \div 12, (monthIndex % 12) + 1, 1) + day - 1) * 24
        - tz

\* formatDate: date.toISOString().split("T")[0], the UTC calendar day of the
\* instant.
formatDate(date) == CivilFromDays(date \div 24)

getMonthDateRange(year, month) ==
    LET startDate == NewDate(year, month - 1, 1)
        endDate == NewDate(year, month, 0)
    IN  [startDate |-> formatDate(startDate), endDate |-> formatDate(endDate)]

getPreviousMonthDateRange(year, month) ==
    LET prevMonth == IF month = 1 THEN 12 ELSE month - 1
        prevYear == IF month = 1 THEN year - 1 ELSE year
    IN  getMonthDateRange(prevYear, prevMonth)

----------------------------------------------------------------------------
(* Content storage *)

snapshotDateOf(year, month) == <<year, month, 1>>

Dates == { snapshotDateOf(y, m) : y \in Years, m \in Months \cup RouteMonths }

\* new Date("YYYY-MM-01") is a date only when MM names a month.
ValidDate(snapshotDate) == snapshotDate[2] \in 1..12

getClientPath(clientId) == <<"snapshots", clientId>>

getSnapshotPath(clientId, snapshotDate) == getClientPath(clientId) \o <<snapshotDate>>

SnapshotFile(clientId, snapshotDate) ==
    getSnapshotPath(clientId, snapshotDate) \o <<"snapshot.json">>

PdfFile(clientId, snapshotDate) ==
    getSnapshotPath(clientId, snapshotDate) \o <<"report.pdf">>

Paths == { SnapshotFile(c, d) : c \in RequestClients, d \in Dates }
            \cup { PdfFile(c, d) : c \in RequestClients, d \in Dates }

\* A file: absent, a complete JSON document, a rendered PDF (of the artifact it
\* was rendered from), or what an interrupted writeFile leaves behind.
NoFile == [kind |-> "none", data |-> None]
JsonFile(data) == [kind |-> "json", data |-> Some(data)]
PdfDoc(data) == [kind |-> "pdf", data |-> Some(data)]
PartialFile == [kind |-> "partial", data |-> None]

----------------------------------------------------------------------------
(* The snapshot artifact *)

\* generateSnapshot, lines 105-115: the artifact before any source block is added.
BuildSnapshotData(clientId, year, month, now) ==
    [clientId |-> clientId,
     clientName |-> ClientName(clientId),
     snapshotDate |-> snapshotDateOf(year, month),
     periodStart |-> getMonthDateRange(year, month).startDate,
     periodEnd |-> getMonthDateRange(year, month).endDate,
     previousPeriodStart |-> getPreviousMonthDateRange(year, month).startDate,
     previousPeriodEnd |-> getPreviousMonthDateRange(year, month).endDate,
     templateVersion |-> "1.0",
     generatedAt |-> now,
     ga4 |-> None]

\* generateSnapshot, lines 126-142: the ga4 block, its changes computed from the
\* two metric sets of this fetch.
Ga4Block(currentMetrics, previousMetrics) ==
    [propertyId |-> "prop",
     current |-> currentMetrics,
     previous |-> previousMetrics,
     changes |->
        [sessions |-> calculateChange(currentMetrics.sessions, previousMetrics.sessions),
         users |-> calculateChange(currentMetrics.users, previousMetrics.users),
         newUsers |-> calculateChange(currentMetrics.newUsers, previousMetrics.newUsers),
         pageviews |-> calculateChange(currentMetrics.pageviews, previousMetrics.pageviews),
         avgSessionDuration |-> calculateChange(currentMetrics.avgSessionDuration,
                                                previousMetrics.avgSessionDuration),
         bounceRate |-> calculateChange(currentMetrics.bounceRate,
                                        previousMetrics.bounceRate)]]

EmptySummary == [k \in {} |-> 0]

\* generateSnapshot, lines 148-154: the headline figures kept in the row.
MetricsSummaryOf(data) ==
    IF data.ga4 # None
    THEN [sessions |-> data.ga4[1].current.sessions,
          users |-> data.ga4[1].current.users,
          pageviews |-> data.ga4[1].current.pageviews]
    ELSE EmptySummary

----------------------------------------------------------------------------
(* The snapshots table *)

\* expires_at of a new row: Date.now() + 24 * 30 * 24 * 60 * 60 * 1000, in hours.
RetentionHours == 24 * 30 * 24

\* The row of an insert at the instant now (created_at defaults to NOW()).
NewRow(id, clientId, snapshotDate, path, summary, now) ==
    [id |-> id,
     client_id |-> clientId,
     snapshot_date |-> snapshotDate,
     template_version |-> "1.0",
     storage_path |-> path,
     pdf_storage_path |-> None,
     metrics_summary |-> summary,
     created_at |-> now,
     expires_at |-> now + RetentionHours]

RowsOf(clientId, snapshotDate) ==
    { r \in snapshots : r.client_id = clientId /\ r.snapshot_date = snapshotDate }

RowsById(id) == { r \in snapshots : r.id = id }

\* Mutant of SelectExisting: a blob left in content storage counts as an
\* existing snapshot even when the table has no row for the month.
SelectExistingOrBlob(clientId, snapshotDate) ==
    IF RowsOf(clientId, snapshotDate) # {}
    THEN Some((CHOOSE r \in RowsOf(clientId, snapshotDate) : TRUE).id)
    ELSE IF files[SnapshotFile(clientId, snapshotDate)] # NoFile
         THEN Some(0)
         ELSE None

\* SELECT id ... WHERE client_id = ? AND snapshot_date = ? (executeTakeFirst).
SelectExisting(clientId, snapshotDate) ==
    IF RowsOf(clientId, snapshotDate) = {}
    THEN None
    ELSE Some((CHOOSE r \in RowsOf(clientId, snapshotDate) : TRUE).id)

\* Mutant of UniqueViolation: the table has no unique constraint.
NoUniqueConstraint(clientId, snapshotDate) == FALSE

\* CONSTRAINT unique_client_snapshot_date UNIQUE (client_id, snapshot_date).
UniqueViolation(clientId, snapshotDate) == RowsOf(clientId, snapshotDate) # {}

\* client_id REFERENCES clients(id).
ForeignKeyViolation(clientId) == clientId \notin clients

\* The SnapshotSummary returned for a row.
SummaryOfRow(r, hasPdf) ==
    [id |-> r.id,
     clientId |-> r.client_id,
     snapshotDate |-> r.snapshot_date,
     templateVersion |-> r.template_version,
     hasPdf |-> hasPdf,
     metricsSummary |-> r.metrics_summary]

----------------------------------------------------------------------------
(* Requests *)

NoCall == [op |-> "none", clientId |-> "c1", userId |-> "u1", year |-> 2025,
           month |-> 3, regenerate |-> FALSE, id |-> None, retryOf |-> ""]

NoResult == [status |-> "none", error |-> "", summary |-> None]

\* The two results of the Promise.all of listSnapshots, before either resolved.
NothingListed == [snapshots |-> None, total |-> None]

\* The locals of getValidAccessToken before its select resolved.
NoToken == [credentials |-> None, newCredentials |-> None]
Returned(summary) == [status |-> "ok", error |-> "", summary |-> summary]
Thrown(error) == [status |-> "error", error |-> error, summary |-> None]

Init ==
    /\ clients = Clients
    /\ dataSource \in [Clients -> DataSourceStates]
    /\ snapshots = {}
    /\ nextId = 1
    /\ files = [f \in Paths |-> NoFile]
    /\ clock = 1
    /\ calls = 0
    /\ deletedIds = {}
    /\ pc = [p \in Procs |-> "idle"]
    /\ call = [p \in Procs |-> NoCall]
    /\ existing = [p \in Procs |-> None]
    /\ metrics = [p \in Procs |-> None]
    /\ snapshotData = [p \in Procs |-> None]
    /\ storagePath = [p \in Procs |-> None]
    /\ snapshotId = [p \in Procs |-> None]
    /\ result = [p \in Procs |-> NoResult]
    /\ tz = 0
    /\ args = None
    /\ ret = None
    /\ listed = [p \in Procs |-> NothingListed]
    /\ tokenRow = None
    /\ token = [p \in Procs |-> NoToken]
    /\ issued = 0

dbVars == <<clients, dataSource, snapshots, nextId, deletedIds>>
tokenVars == <<tokenRow, token, issued>>
helperVars == <<tz, args, ret, listed, tokenVars>>
localVars == <<existing, metrics, snapshotData, storagePath, snapshotId>>

\* Mutant of DataSourceOf: an active row counts as connected whether or not a
\* property was selected for it.
DataSourceOfAnyActive(clientId) ==
    IF clientId \in DOMAIN dataSource
    THEN (IF dataSource[clientId] = "no_account" THEN "connected"
                                                  ELSE dataSource[clientId])
    ELSE "none"

\* The select of the client's active google_analytics row (lines 92-98).
DataSourceOf(clientId) ==
    IF clientId \in DOMAIN dataSource THEN dataSource[clientId] ELSE "none"

Free(p) == pc[p] \in {"idle", "done", "failed"}

\* No request is in flight.
Quiescent == \A p \in Procs : Free(p)

\* A request arrives (its caller checks that the slot is free); the locals of
\* the slot's last request go.
Begin(p, c, first) ==
    /\ calls < MaxCalls
    /\ calls' = calls + 1
    /\ call' = [call EXCEPT ![p] = c]
    /\ pc' = [pc EXCEPT ![p] = first]
    /\ existing' = [existing EXCEPT ![p] = None]
    /\ metrics' = [metrics EXCEPT ![p] = None]
    /\ snapshotData' = [snapshotData EXCEPT ![p] = None]
    /\ storagePath' = [storagePath EXCEPT ![p] = None]
    /\ snapshotId' = [snapshotId EXCEPT ![p] = None]
    /\ result' = [result EXCEPT ![p] = NoResult]
    /\ UNCHANGED <<dbVars, files, clock, helperVars>>

\* A request arrives and its handler throws before its first await.
Reject(p, c, error) ==
    /\ calls < MaxCalls
    /\ calls' = calls + 1
    /\ call' = [call EXCEPT ![p] = c]
    /\ pc' = [pc EXCEPT ![p] = "failed"]
    /\ existing' = [existing EXCEPT ![p] = None]
    /\ metrics' = [metrics EXCEPT ![p] = None]
    /\ snapshotData' = [snapshotData EXCEPT ![p] = None]
    /\ storagePath' = [storagePath EXCEPT ![p] = None]
    /\ snapshotId' = [snapshotId EXCEPT ![p] = None]
    /\ result' = [result EXCEPT ![p] = Thrown(error)]
    /\ UNCHANGED <<dbVars, files, clock, helperVars>>

Goto(p, label) == pc' = [pc EXCEPT ![p] = label]

Throw(p, error) ==
    /\ pc' = [pc EXCEPT ![p] = "failed"]
    /\ result' = [result EXCEPT ![p] = Thrown(error)]

----------------------------------------------------------------------------
(* generateSnapshot(clientId, userId, year, month, regenerate) *)

Date(p) == snapshotDateOf(call[p].year, call[p].month)

\* The regenerate argument: the snapshot route passes the body's flag, the report
\* route calls generateSnapshot(clientId, userId, year, monthNum) and gets the
\* default, false.
Regenerate(p) == call[p].op = "generate" /\ call[p].regenerate

\* new Date() in a route handler: an instant in the middle of March 2025.
Now == NewDate(2025, 2, 15) + clock

\* Snapshot route, lines 32-41: the month number is checked, then the first
\* instant of the requested month is compared with new Date().
SnapshotRouteRejects(year, monthNum) ==
    \/ monthNum < 1 \/ monthNum > 12
    \/ NewDate(year, monthNum - 1, 1) > Now

\* POST /clients/:clientId/snapshots, lines 19-49: the checks of the handler,
\* then the call of generateSnapshot.
SnapshotRoute(p, c) ==
    IF SnapshotRouteRejects(c.year, c.month)
    THEN Reject(p, c, "ValidationError")
    ELSE Begin(p, c, "g_client")

\* A request to the snapshot route for a month of Months.
GenerateRequest(p) ==
    /\ Free(p)
    /\ \E c \in Clients, u \in Users, y \in Years, m \in Months, regen \in BOOLEAN :
          SnapshotRoute(p, [op |-> "generate", clientId |-> c, userId |-> u,
                            year |-> y, month |-> m, regenerate |-> regen,
                            id |-> None, retryOf |-> ""])

\* A request to the snapshot route for any month a caller may name.
GenerateAnyMonthRequest(p) ==
    /\ Free(p)
    /\ \E c \in Clients, u \in Users, y \in Years, m \in RouteMonths,
          regen \in BOOLEAN :
          SnapshotRoute(p, [op |-> "generate", clientId |-> c, userId |-> u,
                            year |-> y, month |-> m, regenerate |-> regen,
                            id |-> None, retryOf |-> ""])

\* A request to the snapshot route for any client id a caller may name.
GenerateAnyClientRequest(p) ==
    /\ Free(p)
    /\ \E c \in RequestClients, u \in Users, y \in Years, m \in Months,
          regen \in BOOLEAN :
          SnapshotRoute(p, [op |-> "generate", clientId |-> c, userId |-> u,
                            year |-> y, month |-> m, regenerate |-> regen,
                            id |-> None, retryOf |-> ""])

\* The caller of a generation that failed at its blob write or at its metadata
\* write sends the same request again.
RetryRequest(p) ==
    /\ pc[p] = "failed"
    /\ call[p].op = "generate"
    /\ result[p].error \in {"StorageError", "DatabaseError"}
    /\ SnapshotRoute(p, [call[p] EXCEPT !.retryOf = result[p].error])

\* Mutant of GenSelectClient: the client row is not looked up.
GenSelectClientUnchecked(p) ==
    /\ pc[p] = "g_client"
    /\ Goto(p, "g_existing")
    /\ UNCHANGED <<dbVars, files, clock, calls, helperVars, call, localVars, result>>

\* Lines 64-74: verify client ownership.
GenSelectClient(p) ==
    /\ pc[p] = "g_client"
    /\ IF call[p].clientId \in clients /\ CreatedBy(call[p].clientId) = call[p].userId
       THEN Goto(p, "g_existing") /\ UNCHANGED result
       ELSE Throw(p, "NotFoundError")
    /\ UNCHANGED <<dbVars, files, clock, calls, helperVars, call, localVars>>

\* Mutant of GenSelectExisting: the existence check comes after the fetches, so
\* a rejected call has already fetched the metrics of the two periods.
GenSelectExistingAfterFetch(p) ==
    /\ pc[p] = "g_existing"
    /\ LET ex == SelectExisting(call[p].clientId, Date(p))
           connected == DataSourceOf(call[p].clientId) = "connected"
       IN
       IF ex # None /\ ~Regenerate(p)
       THEN /\ Throw(p, "ValidationError")
            /\ \E report \in UpstreamReports :
                  metrics' = [metrics EXCEPT ![p] =
                     IF connected
                     THEN Some([current |-> report.current,
                                previous |-> report.previous])
                     ELSE None]
            /\ UNCHANGED <<existing, snapshotData, clock>>
       ELSE /\ existing' = [existing EXCEPT ![p] = ex]
            /\ snapshotData' = [snapshotData EXCEPT ![p] =
                  Some(BuildSnapshotData(call[p].clientId, call[p].year,
                                         call[p].month, clock))]
            /\ clock' = clock + 1
            /\ Goto(p, IF connected THEN "g_fetch" ELSE "g_save")
            /\ UNCHANGED <<result, metrics>>
    /\ UNCHANGED <<dbVars, files, calls, helperVars, call, storagePath, snapshotId>>

\* Lines 79-115: the existence check, then the data source row and the artifact
\* skeleton (the data source select reads nothing another request writes, so it
\* shares the step of the existence check).
GenSelectExisting(p) ==
    /\ pc[p] = "g_existing"
    /\ LET ex == SelectExisting(call[p].clientId, Date(p)) IN
       IF ex # None /\ ~Regenerate(p)
       THEN /\ Throw(p, "ValidationError")
            /\ UNCHANGED <<existing, snapshotData, clock>>
       ELSE /\ existing' = [existing EXCEPT ![p] = ex]
            /\ snapshotData' = [snapshotData EXCEPT ![p] =
                  Some(BuildSnapshotData(call[p].clientId, call[p].year,
                                         call[p].month, clock))]
            /\ clock' = clock + 1
            /\ Goto(p, IF DataSourceOf(call[p].clientId) = "connected"
                       THEN "g_fetch" ELSE "g_save")
            /\ UNCHANGED result
    /\ UNCHANGED <<dbVars, files, calls, helperVars, call, metrics, storagePath, snapshotId>>

\* Mutant of GenFetch: the previous-period figures are taken from the artifact
\* already stored for the month, when there is one, instead of from the fetch.
GenFetchReusesStoredPrevious(p) ==
    /\ pc[p] = "g_fetch"
    /\ \E report \in UpstreamReports :
          LET currentMetrics == report.current
              previousMetrics == report.previous
              stored == files[SnapshotFile(call[p].clientId, Date(p))]
              reused == IF stored.kind = "json" /\ stored.data[1].ga4 # None
                        THEN stored.data[1].ga4[1].previous
                        ELSE previousMetrics
          IN  /\ metrics' = [metrics EXCEPT ![p] =
                     Some([current |-> currentMetrics, previous |-> previousMetrics])]
              /\ snapshotData' = [snapshotData EXCEPT ![p] =
                     Some([snapshotData[p][1] EXCEPT
                             !.ga4 = Some(Ga4Block(currentMetrics, reused))])]
    /\ Goto(p, "g_save")
    /\ UNCHANGED <<dbVars, files, clock, calls, helperVars, call, existing, storagePath,
                   snapshotId, result>>

\* Lines 121-143: both fetches of Promise.all resolve; the ga4 block is built.
GenFetch(p) ==
    /\ pc[p] = "g_fetch"
    /\ \E report \in UpstreamReports :
          LET currentMetrics == report.current
              previousMetrics == report.previous
          IN  /\ metrics' = [metrics EXCEPT ![p] =
                     Some([current |-> currentMetrics, previous |-> previousMetrics])]
              /\ snapshotData' = [snapshotData EXCEPT ![p] =
                     Some([snapshotData[p][1] EXCEPT
                             !.ga4 = Some(Ga4Block(currentMetrics, previousMetrics))])]
    /\ Goto(p, "g_save")
    /\ UNCHANGED <<dbVars, files, clock, calls, helperVars, call, existing, storagePath,
                   snapshotId, result>>

\* Lines 121-124: one of the two fetches rejects; Promise.all rejects and nothing
\* catches it, so generateSnapshot throws.
GenFetchFails(p) ==
    /\ pc[p] = "g_fetch"
    /\ Throw(p, "UpstreamError")
    /\ UNCHANGED <<dbVars, files, clock, calls, helperVars, call, localVars>>

\* saveSnapshotData, lines 42-46: the directory is made and writeFile opens the
\* file, which truncates it; the content is not in the file yet.
GenSaveOpen(p) ==
    /\ pc[p] = "g_save"
    /\ files' = [files EXCEPT ![SnapshotFile(call[p].clientId, Date(p))] = PartialFile]
    /\ Goto(p, "g_write")
    /\ UNCHANGED <<dbVars, clock, calls, helperVars, call, localVars, result>>

\* Line 146 and saveSnapshotData, lines 46-48: writeFile completes, the blob is
\* whole and its path is returned.
GenSave(p) ==
    /\ pc[p] = "g_write"
    /\ files' = [files EXCEPT ![SnapshotFile(call[p].clientId, Date(p))] =
                    JsonFile(snapshotData[p][1])]
    /\ storagePath' = [storagePath EXCEPT ![p] =
                          Some(SnapshotFile(call[p].clientId, Date(p)))]
    /\ Goto(p, "g_upsert")
    /\ UNCHANGED <<dbVars, clock, calls, helperVars, call, existing, metrics, snapshotData,
                   snapshotId, result>>

\* Mutant of GenSaveFails: the error of the blob write is swallowed and the
\* generation goes on to its metadata write with the path it computed.
GenSaveErrorSwallowed(p) ==
    /\ pc[p] \in {"g_save", "g_write"}
    /\ files' = files
    /\ storagePath' = [storagePath EXCEPT ![p] =
                          Some(SnapshotFile(call[p].clientId, Date(p)))]
    /\ Goto(p, "g_upsert")
    /\ UNCHANGED <<dbVars, clock, calls, helperVars, call, existing, metrics, snapshotData,
                   snapshotId, result>>

\* saveSnapshotData throws: mkdir or the open fails and the file is as it was,
\* or the write fails and the file stays truncated. The error propagates out of
\* generateSnapshot.
GenSaveFails(p) ==
    /\ pc[p] \in {"g_save", "g_write"}
    /\ files' = files
    /\ Throw(p, "StorageError")
    /\ UNCHANGED <<dbVars, clock, calls, helperVars, call, localVars>>

\* generateSnapshot returns: to the caller of the snapshot route, or into the
\* report route or the preview route.
GenReturn(p, summary) ==
    IF call[p].op \in {"report", "preview"}
    THEN /\ Goto(p, "rp_load")
         /\ snapshotId' = [snapshotId EXCEPT ![p] = Some(summary.id)]
         /\ UNCHANGED result
    ELSE /\ Goto(p, "done")
         /\ result' = [result EXCEPT ![p] = Returned(Some(summary))]
         /\ UNCHANGED snapshotId

\* Mutant of GenUpdate: the update also renews the retention boundary, as the
\* insert sets it.
GenUpdateRenewsExpiry(p) ==
    /\ pc[p] = "g_upsert"
    /\ existing[p] # None
    /\ snapshots' =
          { IF r.id = existing[p][1]
            THEN [r EXCEPT !.storage_path = storagePath[p][1],
                           !.metrics_summary = MetricsSummaryOf(snapshotData[p][1]),
                           !.template_version = "1.0",
                           !.expires_at = clock + RetentionHours]
            ELSE r : r \in snapshots }
    /\ Goto(p, "g_reselect")
    /\ UNCHANGED <<clients, dataSource, nextId, deletedIds, files, clock, calls, helperVars, call,
                   localVars, result>>

\* Lines 157-166: the row selected by the existence check is updated.
GenUpdate(p) ==
    /\ pc[p] = "g_upsert"
    /\ existing[p] # None
    /\ snapshots' =
          { IF r.id = existing[p][1]
            THEN [r EXCEPT !.storage_path = storagePath[p][1],
                           !.metrics_summary = MetricsSummaryOf(snapshotData[p][1]),
                           !.template_version = "1.0"]
            ELSE r : r \in snapshots }
    /\ Goto(p, "g_reselect")
    /\ UNCHANGED <<clients, dataSource, nextId, deletedIds, files, clock, calls, helperVars, call,
                   localVars, result>>

\* Lines 168-183: the updated row is read back and returned.
GenReselect(p) ==
    /\ pc[p] = "g_reselect"
    /\ IF RowsById(existing[p][1]) = {}
       THEN Throw(p, "NoResultError") /\ UNCHANGED snapshotId
       ELSE LET snapshot == CHOOSE r \in RowsById(existing[p][1]) : TRUE IN
            GenReturn(p, SummaryOfRow(snapshot, snapshot.pdf_storage_path # None))
    /\ UNCHANGED <<dbVars, files, clock, calls, helperVars, call, existing, metrics,
                   snapshotData, storagePath>>

\* Lines 185-207: a new row is inserted; the unique constraint and the foreign
\* key of the table reject the insert.
GenInsert(p) ==
    /\ pc[p] = "g_upsert"
    /\ existing[p] = None
    /\ IF UniqueViolation(call[p].clientId, Date(p))
          \/ ForeignKeyViolation(call[p].clientId)
       THEN /\ Throw(p, IF UniqueViolation(call[p].clientId, Date(p))
                          THEN "unique_violation" ELSE "foreign_key_violation")
            /\ UNCHANGED <<snapshots, nextId, snapshotId>>
       ELSE LET snapshot == NewRow(nextId, call[p].clientId, Date(p), storagePath[p][1],
                                   MetricsSummaryOf(snapshotData[p][1]), clock) IN
            /\ snapshots' = snapshots \cup {snapshot}
            /\ nextId' = nextId + 1
            /\ GenReturn(p, SummaryOfRow(snapshot, FALSE))
    /\ UNCHANGED <<clients, dataSource, deletedIds, files, clock, calls, helperVars, call,
                   existing, metrics, snapshotData, storagePath>>

\* The update or the insert fails in the database (connection lost, timeout).
GenUpsertFails(p) ==
    /\ pc[p] = "g_upsert"
    /\ Throw(p, "DatabaseError")
    /\ UNCHANGED <<dbVars, files, clock, calls, helperVars, call, localVars>>

----------------------------------------------------------------------------
(* POST /clients/:clientId/reports?month=YYYY-MM (report route) *)

\* Mutant of OwnedRows: the join with the owner of the client is left out.
OwnedRowsOfAnyUser(rows, userId) == rows

OwnedRows(rows, userId) ==
    { r \in rows : r.client_id \in clients /\ CreatedBy(r.client_id) = userId }

\* A request to the report route for any month a caller may name (the handler
\* checks the format of month only, lines 170-176).
ReportAnyMonthRequest(p) ==
    /\ Free(p)
    /\ \E c \in Clients, u \in Users, y \in Years, m \in RouteMonths,
          regen \in BOOLEAN :
          Begin(p, [op |-> "report", clientId |-> c, userId |-> u, year |-> y,
                    month |-> m, regenerate |-> regen, id |-> None, retryOf |-> ""],
                   "rp_existing")

\* A request to the report route for a month of Months.
ReportRequest(p) ==
    /\ Free(p)
    /\ \E c \in Clients, u \in Users, y \in Years, m \in Months, regen \in BOOLEAN :
          Begin(p, [op |-> "report", clientId |-> c, userId |-> u, year |-> y,
                    month |-> m, regenerate |-> regen, id |-> None, retryOf |-> ""],
                   "rp_existing")

\* Lines 183-208 of the routes file: an existing snapshot is reused (and the
\* request answered at once when it has a PDF and regenerate is not "true"),
\* otherwise generateSnapshot is called.
RpSelectExisting(p) ==
    /\ pc[p] = "rp_existing"
    /\ LET rows == OwnedRows(RowsOf(call[p].clientId, Date(p)), call[p].userId) IN
       IF ~ValidDate(Date(p))
       THEN Throw(p, "DatabaseError") /\ UNCHANGED snapshotId
       ELSE IF rows # {}
       THEN LET row == CHOOSE r \in rows : TRUE IN
            IF row.pdf_storage_path # None /\ ~call[p].regenerate
            THEN /\ Goto(p, "done")
                 /\ result' = [result EXCEPT ![p] = Returned(None)]
                 /\ UNCHANGED snapshotId
            ELSE /\ Goto(p, "rp_load")
                 /\ snapshotId' = [snapshotId EXCEPT ![p] = Some(row.id)]
                 /\ UNCHANGED result
       ELSE /\ Goto(p, "g_client")
            /\ UNCHANGED <<snapshotId, result>>
    /\ UNCHANGED <<dbVars, files, clock, calls, helperVars, call, existing, metrics,
                   snapshotData, storagePath>>

\* Line 211 and getSnapshotData: the row is selected with its client's owner and
\* the blob at its storage_path is read and parsed.
RpLoad(p) ==
    /\ pc[p] = "rp_load"
    /\ LET rows == OwnedRows(RowsById(snapshotId[p][1]), call[p].userId) IN
       IF rows = {}
       THEN Throw(p, "NotFoundError") /\ UNCHANGED snapshotData
       ELSE LET file == files[(CHOOSE r \in rows : TRUE).storage_path] IN
            IF file.kind = "json"
            THEN /\ snapshotData' = [snapshotData EXCEPT ![p] = file.data]
                 /\ Goto(p, IF call[p].op = "preview" THEN "pv_render"
                                                       ELSE "rp_render")
                 /\ UNCHANGED result
            ELSE Throw(p, "StorageError") /\ UNCHANGED snapshotData
    /\ UNCHANGED <<dbVars, files, clock, calls, helperVars, call, existing, metrics,
                   storagePath, snapshotId>>

\* Lines 213-217: the renderer returns the PDF of the loaded artifact and
\* savePdfFile writes it.
RpRenderSave(p) ==
    /\ pc[p] = "rp_render"
    /\ files' = [files EXCEPT ![PdfFile(call[p].clientId, Date(p))] =
                    PdfDoc(snapshotData[p][1])]
    /\ Goto(p, "rp_update")
    /\ UNCHANGED <<dbVars, clock, calls, helperVars, call, localVars, result>>

\* A handler that records the path of the PDF before the write is known to have
\* succeeded.
RpRenderSaveFailsPathRecorded(p) ==
    /\ pc[p] = "rp_render"
    /\ files' = [files EXCEPT ![PdfFile(call[p].clientId, Date(p))] = PartialFile]
    /\ snapshots' =
          { IF r.id = snapshotId[p][1]
            THEN [r EXCEPT !.pdf_storage_path =
                               Some(PdfFile(call[p].clientId, Date(p)))]
            ELSE r : r \in snapshots }
    /\ Throw(p, "StorageError")
    /\ UNCHANGED <<clients, dataSource, nextId, deletedIds, clock, calls, helperVars,
                   call, localVars>>

\* The renderer or savePdfFile throws; writeFile may have truncated the file.
RpRenderSaveFails(p) ==
    /\ pc[p] = "rp_render"
    /\ \E f \in {files[PdfFile(call[p].clientId, Date(p))], PartialFile} :
          files' = [files EXCEPT ![PdfFile(call[p].clientId, Date(p))] = f]
    /\ Throw(p, "StorageError")
    /\ UNCHANGED <<dbVars, clock, calls, helperVars, call, localVars>>

\* Lines 219-231: the row's pdf_storage_path is set.
RpUpdate(p) ==
    /\ pc[p] = "rp_update"
    /\ snapshots' =
          { IF r.id = snapshotId[p][1]
            THEN [r EXCEPT !.pdf_storage_path =
                               Some(PdfFile(call[p].clientId, Date(p)))]
            ELSE r : r \in snapshots }
    /\ Goto(p, "done")
    /\ result' = [result EXCEPT ![p] = Returned(None)]
    /\ UNCHANGED <<clients, dataSource, nextId, deletedIds, files, clock, calls, helperVars, call,
                   localVars>>

----------------------------------------------------------------------------
(* GET /clients/:clientId/preview?month=YYYY-MM (preview route) *)

\* The handler checks the format of month only (lines 121-127).
PreviewRequest(p) ==
    /\ Free(p)
    /\ \E c \in Clients, u \in Users, y \in Years, m \in RouteMonths :
          Begin(p, [op |-> "preview", clientId |-> c, userId |-> u, year |-> y,
                    month |-> m, regenerate |-> FALSE, id |-> None, retryOf |-> ""],
                   "pv_existing")

\* Lines 132-150: an existing snapshot is loaded, otherwise generateSnapshot is
\* called; a Date that is no date makes the query fail in the database.
PvSelectExisting(p) ==
    /\ pc[p] = "pv_existing"
    /\ LET rows == OwnedRows(RowsOf(call[p].clientId, Date(p)), call[p].userId) IN
       IF ~ValidDate(Date(p))
       THEN Throw(p, "DatabaseError") /\ UNCHANGED snapshotId
       ELSE IF rows # {}
       THEN /\ Goto(p, "rp_load")
            /\ snapshotId' = [snapshotId EXCEPT ![p] =
                                 Some((CHOOSE r \in rows : TRUE).id)]
            /\ UNCHANGED result
       ELSE /\ Goto(p, "g_client")
            /\ UNCHANGED <<snapshotId, result>>
    /\ UNCHANGED <<dbVars, files, clock, calls, helperVars, call, existing, metrics,
                   snapshotData, storagePath>>

\* Lines 152-156: the HTML of the loaded artifact is rendered and sent.
PvRender(p) ==
    /\ pc[p] = "pv_render"
    /\ Goto(p, "done")
    /\ result' = [result EXCEPT ![p] = Returned(snapshotData[p])]
    /\ UNCHANGED <<dbVars, files, clock, calls, helperVars, call, localVars>>

----------------------------------------------------------------------------
(* GET /snapshots/:id/data (getSnapshotData of the snapshot service) *)

GetDataRequest(p) ==
    /\ Free(p)
    /\ \E id \in 1..nextId, u \in Users :
          Begin(p, [NoCall EXCEPT !.op = "getData", !.userId = u,
                                  !.id = Some(id)], "gd_select")

\* Lines 272-287: the row is selected with its client's owner.
GdSelect(p) ==
    /\ pc[p] = "gd_select"
    /\ LET rows == OwnedRows(RowsById(call[p].id[1]), call[p].userId) IN
       IF rows = {}
       THEN Throw(p, "NotFoundError") /\ UNCHANGED storagePath
       ELSE /\ storagePath' = [storagePath EXCEPT ![p] =
                                  Some((CHOOSE r \in rows : TRUE).storage_path)]
            /\ Goto(p, "gd_read")
            /\ UNCHANGED result
    /\ UNCHANGED <<dbVars, files, clock, calls, helperVars, call, existing, metrics,
                   snapshotData, snapshotId>>

\* Mutant of GdRead: reading the artifact stamps it and writes it back.
GdReadStamps(p) ==
    /\ pc[p] = "gd_read"
    /\ LET file == files[storagePath[p][1]] IN
       IF file.kind = "json"
       THEN /\ Goto(p, "done")
            /\ result' = [result EXCEPT ![p] = Returned(file.data)]
            /\ files' = [files EXCEPT ![storagePath[p][1]] =
                            JsonFile([file.data[1] EXCEPT !.generatedAt = clock])]
       ELSE Throw(p, "StorageError") /\ UNCHANGED files
    /\ UNCHANGED <<dbVars, clock, calls, helperVars, call, localVars>>

\* Lines 289-296 and loadSnapshotDataFromPath: readFile, then JSON.parse of what
\* was read; a missing file and a text that is no JSON document both throw.
GdRead(p) ==
    /\ pc[p] = "gd_read"
    /\ LET file == files[storagePath[p][1]] IN
       IF file.kind = "json"
       THEN /\ Goto(p, "done")
            /\ result' = [result EXCEPT ![p] = Returned(file.data)]
       ELSE Throw(p, "StorageError")
    /\ UNCHANGED <<dbVars, files, clock, calls, helperVars, call, localVars>>

----------------------------------------------------------------------------
(* Requests of any authenticated user: generate, list, summary, artifact *)

\* A request to the snapshot route by any user.
GenerateAnyUserRequest(p) ==
    /\ Free(p)
    /\ \E c \in Clients, u \in RequestUsers, y \in Years, m \in Months,
          regen \in BOOLEAN :
          SnapshotRoute(p, [op |-> "generate", clientId |-> c, userId |-> u,
                            year |-> y, month |-> m, regenerate |-> regen,
                            id |-> None, retryOf |-> ""])

\* GET /snapshots/:id/data by any user.
GetDataAnyUserRequest(p) ==
    /\ Free(p)
    /\ \E id \in 1..nextId, u \in RequestUsers :
          Begin(p, [NoCall EXCEPT !.op = "getData", !.userId = u,
                                  !.id = Some(id)], "gd_select")

\* GET /clients/:clientId/snapshots (listSnapshots with the default limit).
ListRequest(p) ==
    /\ Free(p)
    /\ \E c \in Clients, u \in RequestUsers :
          Begin(p, [NoCall EXCEPT !.op = "list", !.clientId = c, !.userId = u],
                   "ls_client")

\* listSnapshots, lines 221-231: verify client ownership.
LsSelectClient(p) ==
    /\ pc[p] = "ls_client"
    /\ listed' = [listed EXCEPT ![p] = NothingListed]
    /\ IF call[p].clientId \in clients /\ CreatedBy(call[p].clientId) = call[p].userId
       THEN Goto(p, "ls_both") /\ UNCHANGED result
       ELSE Throw(p, "NotFoundError")
    /\ UNCHANGED <<dbVars, files, clock, calls, tz, args, ret, tokenVars, call,
                   localVars>>

\* listSnapshots returns once both queries of its Promise.all have resolved
\* (lines 249-260).
LsReturn(p, l) ==
    IF l.snapshots # None /\ l.total # None
    THEN /\ Goto(p, "done")
         /\ result' = [result EXCEPT ![p] =
               Returned(Some([snapshots |-> l.snapshots[1], total |-> l.total[1]]))]
    ELSE /\ Goto(p, "ls_both")
         /\ UNCHANGED result

\* Lines 234-241: the rows of the client (at most one page of them).
LsSelectRows(p) ==
    /\ pc[p] = "ls_both"
    /\ listed[p].snapshots = None
    /\ LET rows == { r \in snapshots : r.client_id = call[p].clientId }
           l == [listed[p] EXCEPT !.snapshots =
                    Some({ SummaryOfRow(r, r.pdf_storage_path # None) : r \in rows })]
       IN  listed' = [listed EXCEPT ![p] = l] /\ LsReturn(p, l)
    /\ UNCHANGED <<dbVars, files, clock, calls, tz, args, ret, tokenVars, call,
                   localVars>>

\* Lines 242-246: the count of the rows of the client.
LsCount(p) ==
    /\ pc[p] = "ls_both"
    /\ listed[p].total = None
    /\ LET l == [listed[p] EXCEPT !.total =
                    Some(Cardinality({ r \in snapshots :
                                          r.client_id = call[p].clientId }))]
       IN  listed' = [listed EXCEPT ![p] = l] /\ LsReturn(p, l)
    /\ UNCHANGED <<dbVars, files, clock, calls, tz, args, ret, tokenVars, call,
                   localVars>>

\* GET /snapshots/:id (getSnapshot) by any user.
GetSummaryRequest(p) ==
    /\ Free(p)
    /\ \E id \in 1..nextId, u \in RequestUsers :
          Begin(p, [NoCall EXCEPT !.op = "getSummary", !.userId = u,
                                  !.id = Some(id)], "gs_select")

\* getSnapshot, lines 308-336: the row is selected with its client's owner.
GsSelect(p) ==
    /\ pc[p] = "gs_select"
    /\ LET rows == OwnedRows(RowsById(call[p].id[1]), call[p].userId) IN
       IF rows = {}
       THEN Throw(p, "NotFoundError")
       ELSE LET snapshot == CHOOSE r \in rows : TRUE IN
            /\ Goto(p, "done")
            /\ result' = [result EXCEPT ![p] =
                  Returned(Some(SummaryOfRow(snapshot,
                                             snapshot.pdf_storage_path # None)))]
    /\ UNCHANGED <<dbVars, files, clock, calls, helperVars, call, localVars>>

----------------------------------------------------------------------------
(* DELETE /snapshots/:id (deleteSnapshot of the snapshot service) *)

DeleteSnapshotRequest(p) ==
    /\ Free(p)
    /\ \E id \in 1..nextId, u \in Users :
          Begin(p, [NoCall EXCEPT !.op = "deleteSnapshot", !.userId = u,
                                  !.id = Some(id)], "ds_select")

\* The row is selected with its client's owner.
DsSelect(p) ==
    /\ pc[p] = "ds_select"
    /\ LET rows == OwnedRows(RowsById(call[p].id[1]), call[p].userId) IN
       IF rows = {}
       THEN Throw(p, "NotFoundError") /\ UNCHANGED call
       ELSE LET row == CHOOSE r \in rows : TRUE IN
            /\ call' = [call EXCEPT ![p].clientId = row.client_id,
                                    ![p].year = row.snapshot_date[1],
                                    ![p].month = row.snapshot_date[2]]
            /\ Goto(p, "ds_delete")
            /\ UNCHANGED result
    /\ UNCHANGED <<dbVars, files, clock, calls, helperVars, localVars>>

\* deleteSnapshot of the storage service: fs.rm of the snapshot's directory.
\* The service removes the files and the row in an order the model leaves open.
DsDeleteFiles(p) ==
    /\ pc[p] \in {"ds_delete", "ds_files"}
    /\ files' = [f \in Paths |->
                    IF f \in {SnapshotFile(call[p].clientId, Date(p)),
                              PdfFile(call[p].clientId, Date(p))}
                    THEN NoFile ELSE files[f]]
    /\ IF pc[p] = "ds_delete"
       THEN Goto(p, "ds_row") /\ UNCHANGED result
       ELSE Goto(p, "done") /\ result' = [result EXCEPT ![p] = Returned(None)]
    /\ UNCHANGED <<dbVars, clock, calls, helperVars, call, localVars>>

DsDeleteRow(p) ==
    /\ pc[p] \in {"ds_delete", "ds_row"}
    /\ snapshots' = snapshots \ RowsById(call[p].id[1])
    /\ deletedIds' = deletedIds \cup { r.id : r \in RowsById(call[p].id[1]) }
    /\ IF pc[p] = "ds_delete"
       THEN Goto(p, "ds_files") /\ UNCHANGED result
       ELSE Goto(p, "done") /\ result' = [result EXCEPT ![p] = Returned(None)]
    /\ UNCHANGED <<clients, dataSource, nextId, files, clock, calls, helperVars, call, localVars>>

----------------------------------------------------------------------------
(* deleteClient(id, userId) *)

DeleteClientRequest(p) ==
    /\ Free(p)
    /\ \E c \in Clients, u \in Users :
          Begin(p, [NoCall EXCEPT !.op = "deleteClient", !.clientId = c,
                                  !.userId = u], "dc_select")

\* Lines 191-200: the ownership check.
DcSelect(p) ==
    /\ pc[p] = "dc_select"
    /\ IF call[p].clientId \in clients /\ CreatedBy(call[p].clientId) = call[p].userId
       THEN Goto(p, "dc_storage") /\ UNCHANGED result
       ELSE Throw(p, "NotFoundError")
    /\ UNCHANGED <<dbVars, files, clock, calls, helperVars, call, localVars>>

\* deleteClientStorage: the client's directory is removed.
deleteClientStorage(clientId) ==
    [f \in Paths |-> IF SubSeq(f, 1, 2) = getClientPath(clientId)
                     THEN NoFile ELSE files[f]]

\* Line 202.
DcStorage(p) ==
    /\ pc[p] = "dc_storage"
    /\ files' = deleteClientStorage(call[p].clientId)
    /\ Goto(p, "dc_db")
    /\ UNCHANGED <<dbVars, clock, calls, helperVars, call, localVars, result>>

\* Lines 204-208: the client row is deleted; the rows referencing it go with it
\* (ON DELETE CASCADE).
DcDelete(p) ==
    /\ pc[p] = "dc_db"
    /\ clients' = clients \ {call[p].clientId}
    /\ dataSource' = [dataSource EXCEPT ![call[p].clientId] = "none"]
    /\ snapshots' = { r \in snapshots : r.client_id # call[p].clientId }
    /\ deletedIds' = deletedIds
          \cup { r.id : r \in { x \in snapshots : x.client_id = call[p].clientId } }
    /\ Goto(p, "done")
    /\ result' = [result EXCEPT ![p] = Returned(None)]
    /\ UNCHANGED <<nextId, files, clock, calls, helperVars, call, localVars>>

\* The DELETE fails in the database.
DcDeleteFails(p) ==
    /\ pc[p] = "dc_db"
    /\ Throw(p, "DatabaseError")
    /\ UNCHANGED <<dbVars, files, clock, calls, helperVars, call, localVars>>

----------------------------------------------------------------------------
Next ==
    \E p \in Procs :
        \/ GenerateRequest(p)
        \/ GenSelectClient(p)
        \/ GenSelectExisting(p)
        \/ GenFetch(p)
        \/ GenFetchFails(p)
        \/ GenSaveOpen(p)
        \/ GenSave(p)
        \/ GenSaveFails(p)
        \/ GenUpdate(p)
        \/ GenReselect(p)
        \/ GenInsert(p)
        \/ GenUpsertFails(p)
        \/ ReportRequest(p)
        \/ RpSelectExisting(p)
        \/ RpLoad(p)
        \/ RpRenderSave(p)
        \/ RpRenderSaveFails(p)
        \/ RpUpdate(p)
        \/ DeleteSnapshotRequest(p)
        \/ DsSelect(p)
        \/ DsDeleteFiles(p)
        \/ DsDeleteRow(p)
        \/ DeleteClientRequest(p)
        \/ DcSelect(p)
        \/ DcStorage(p)
        \/ DcDelete(p)
        \/ DcDeleteFails(p)

Spec == Init /\ [][Next]_vars

----------------------------------------------------------------------------
(* The three routes that start a generation, one request at a time, for every
   month a caller may name. *)

RouteProcs == {"p1"}

NextRoutes ==
    \E p \in RouteProcs :
        \/ GenerateAnyMonthRequest(p)
        \/ RetryRequest(p)
        \/ PreviewRequest(p)
        \/ ReportAnyMonthRequest(p)
        \/ GenSelectClient(p)
        \/ GenSelectExisting(p)
        \/ GenFetch(p)
        \/ GenFetchFails(p)
        \/ GenSaveOpen(p)
        \/ GenSave(p)
        \/ GenSaveFails(p)
        \/ GenUpdate(p)
        \/ GenReselect(p)
        \/ GenInsert(p)
        \/ GenUpsertFails(p)
        \/ PvSelectExisting(p)
        \/ PvRender(p)
        \/ RpSelectExisting(p)
        \/ RpLoad(p)
        \/ RpRenderSave(p)
        \/ RpRenderSaveFails(p)
        \/ RpUpdate(p)

SpecRoutes == Init /\ [][NextRoutes]_vars

----------------------------------------------------------------------------
(* Readers of the artifact next to generations and deletions, started with the
   snapshot of March 2025 already generated. *)

\* The artifact of an earlier generation of March 2025 for client c1.
SeedArtifact ==
    LET report == CHOOSE r \in UpstreamReports : r.previous.sessions > 0 IN
    [BuildSnapshotData("c1", 2025, 3, 0) EXCEPT
        !.ga4 = Some(Ga4Block(report.current, report.previous))]

InitSeeded ==
    /\ tz = 0
    /\ args = None
    /\ ret = None
    /\ listed = [p \in Procs |-> NothingListed]
    /\ tokenRow = None
    /\ token = [p \in Procs |-> NoToken]
    /\ issued = 0
    /\ clients = Clients
    /\ dataSource \in [Clients -> DataSourceStates]
    /\ snapshots = { NewRow(1, "c1", snapshotDateOf(2025, 3),
                            SnapshotFile("c1", snapshotDateOf(2025, 3)),
                            MetricsSummaryOf(SeedArtifact), 0) }
    /\ nextId = 2
    /\ files = [f \in Paths |->
                   IF f = SnapshotFile("c1", snapshotDateOf(2025, 3))
                   THEN JsonFile(SeedArtifact) ELSE NoFile]
    /\ clock = 1
    /\ calls = 0
    /\ deletedIds = {}
    /\ pc = [p \in Procs |-> "idle"]
    /\ call = [p \in Procs |-> NoCall]
    /\ existing = [p \in Procs |-> None]
    /\ metrics = [p \in Procs |-> None]
    /\ snapshotData = [p \in Procs |-> None]
    /\ storagePath = [p \in Procs |-> None]
    /\ snapshotId = [p \in Procs |-> None]
    /\ result = [p \in Procs |-> NoResult]

NextRead ==
    \E p \in Procs :
        \/ GenerateAnyClientRequest(p)
        \/ GenSelectClient(p)
        \/ GenSelectExisting(p)
        \/ GenFetch(p)
        \/ GenFetchFails(p)
        \/ GenSaveOpen(p)
        \/ GenSave(p)
        \/ GenSaveFails(p)
        \/ GenUpdate(p)
        \/ GenReselect(p)
        \/ GenInsert(p)
        \/ GenUpsertFails(p)
        \/ GetDataRequest(p)
        \/ GdSelect(p)
        \/ GdRead(p)
        \/ DeleteSnapshotRequest(p)
        \/ DsSelect(p)
        \/ DsDeleteFiles(p)
        \/ DsDeleteRow(p)

SpecRead == InitSeeded /\ [][NextRead]_vars

----------------------------------------------------------------------------
(* The period calculator and the comparison engine called on their own. *)


DateYears == {2023, 2024, 2025, 2026}

\* The largest figure given to calculateChange.
MaxMetric == 10

\* The state of the store is of no concern to the helpers.
InitHelper ==
    /\ clients = Clients
    /\ dataSource = [c \in Clients |-> "none"]
    /\ snapshots = {}
    /\ nextId = 1
    /\ files = [f \in Paths |-> NoFile]
    /\ clock = 1
    /\ calls = 0
    /\ deletedIds = {}
    /\ pc = [p \in Procs |-> "idle"]
    /\ call = [p \in Procs |-> NoCall]
    /\ existing = [p \in Procs |-> None]
    /\ metrics = [p \in Procs |-> None]
    /\ snapshotData = [p \in Procs |-> None]
    /\ storagePath = [p \in Procs |-> None]
    /\ snapshotId = [p \in Procs |-> None]
    /\ result = [p \in Procs |-> NoResult]
    /\ ret = None
    /\ listed = [p \in Procs |-> NothingListed]
    /\ tokenRow = None
    /\ token = [p \in Procs |-> NoToken]
    /\ issued = 0

storeVars == <<clients, dataSource, snapshots, nextId, files, clock, calls,
               deletedIds, pc, call, existing, metrics, snapshotData, storagePath,
               snapshotId, result>>

InitDates ==
    /\ InitHelper
    /\ tz \in TimeZones
    /\ args \in { Some([year |-> y, month |-> m]) : y \in DateYears, m \in 1..12 }

CallGetMonthDateRange ==
    /\ ret = None
    /\ ret' = Some([fn |-> "getMonthDateRange",
                    value |-> getMonthDateRange(args[1].year, args[1].month)])
    /\ UNCHANGED <<storeVars, tz, args, listed, tokenVars>>

CallGetPreviousMonthDateRange ==
    /\ ret = None
    /\ ret' = Some([fn |-> "getPreviousMonthDateRange",
                    value |-> getPreviousMonthDateRange(args[1].year, args[1].month)])
    /\ UNCHANGED <<storeVars, tz, args, listed, tokenVars>>

NextDates == CallGetMonthDateRange \/ CallGetPreviousMonthDateRange

SpecDates == InitDates /\ [][NextDates]_vars

\* The month numbers a caller may pass: the twelve months and the numbers next
\* to them.
AnyMonths == -1 .. 14

InitDatesAny ==
    /\ InitHelper
    /\ tz \in TimeZones
    /\ args \in { Some([year |-> y, month |-> m]) : y \in DateYears, m \in AnyMonths }

SpecDatesAny == InitDatesAny /\ [][NextDates]_vars

InitChange ==
    /\ InitHelper
    /\ tz = 0
    /\ args \in { Some([current |-> c, previous |-> v]) :
                     c \in 0..MaxMetric, v \in 0..MaxMetric }

CallCalculateChange ==
    /\ ret = None
    /\ ret' = Some(calculateChange(args[1].current, args[1].previous))
    /\ UNCHANGED <<storeVars, tz, args, listed, tokenVars>>

NextChange == CallCalculateChange

SpecChange == InitChange /\ [][NextChange]_vars

----------------------------------------------------------------------------
(* Generations under fair scheduling. *)

\* The steps of a generation that wait for the database or the file system of
\* the server: each completes or fails.
GenLocalStep(p) ==
    \/ GenSelectClient(p)
    \/ GenSelectExisting(p)
    \/ GenSaveOpen(p)
    \/ GenSave(p)
    \/ GenSaveFails(p)
    \/ GenUpdate(p)
    \/ GenReselect(p)
    \/ GenInsert(p)
    \/ GenUpsertFails(p)

\* The steps that are taken when the upstream answers the two runReport series
\* of Promise.all, or when one of them is rejected.
GenUpstreamStep(p) == GenFetch(p) \/ GenFetchFails(p)

NextLive ==
    \E p \in Procs :
        \/ GenerateRequest(p)
        \/ GenLocalStep(p)
        \/ GenUpstreamStep(p)

\* The event loop resumes a request whose database or file operation has
\* settled. Nothing in generateSnapshot or fetchGA4Metrics sets a timer, so no
\* step of the program is due while the upstream is silent.
SpecLive ==
    Init /\ [][NextLive]_vars /\ \A p \in Procs : WF_vars(GenLocalStep(p))

----------------------------------------------------------------------------
(* Generations and deletions, one request at a time, while the retention
   window of a snapshot passes. *)

\* The wall clock moves past the retention boundary of every row inserted so
\* far.
TimePasses ==
    /\ clock < RetentionHours
    /\ clock' = clock + RetentionHours + 1
    /\ UNCHANGED <<dbVars, files, calls, pc, call, localVars, result, helperVars>>

\* The steps of a deleteSnapshot request.
DsStep(p) == DsSelect(p) \/ DsDeleteFiles(p) \/ DsDeleteRow(p)

NextSweep ==
    \/ TimePasses
    \/ \E p \in RouteProcs :
          \/ GenerateRequest(p)
          \/ GenLocalStep(p)
          \/ GenUpstreamStep(p)
          \/ DeleteSnapshotRequest(p)
          \/ DsStep(p)

\* Every request in flight is resumed and answered, and time passes. No routine
\* of the server runs without a request: there is no timer and no scheduled job.
SpecSweep ==
    /\ Init
    /\ [][NextSweep]_vars
    /\ WF_vars(TimePasses)
    /\ \A p \in RouteProcs :
          WF_vars(GenLocalStep(p) \/ GenUpstreamStep(p) \/ DsStep(p))

----------------------------------------------------------------------------
(* The four snapshot operations called by the owner of a client and by
   another user. *)

NextOwner ==
    \E p \in Procs :
        \/ GenerateAnyUserRequest(p)
        \/ GenLocalStep(p)
        \/ GenUpstreamStep(p)
        \/ ListRequest(p)
        \/ LsSelectClient(p)
        \/ LsSelectRows(p)
        \/ LsCount(p)
        \/ GetSummaryRequest(p)
        \/ GsSelect(p)
        \/ GetDataAnyUserRequest(p)
        \/ GdSelect(p)
        \/ GdRead(p)

SpecOwner == Init /\ [][NextOwner]_vars

----------------------------------------------------------------------------
(* getValidAccessToken(dataSourceId): the OAuth credentials of a data source *)

\* The clock counts hours; the token code compares times to the minute.
NowMinutes == clock * 60

\* Line 800: a token that expires within five minutes is refreshed.
RefreshBuffer == 5

\* Lines 763-765: the lifetime assumed for a token granted without an expiry_date.
DefaultLifetime == 60

\* The values of data_sources.status (shared types, DataSourceStatus).
Statuses == {"active", "expired", "disconnected"}

\* Date.prototype.toJSON and new Date(string).
Iso(t) == <<"iso", t>>
ParseDate(s) == s[2]

\* JSON.stringify of an OAuthCredentials: the Date becomes its ISO string, an
\* undefined refreshToken (None) is left out.
Stringify(c) ==
    [accessToken |-> c.accessToken, refreshToken |-> c.refreshToken,
     expiresAt |-> Iso(c.expiresAt)]

\* What exchangeCodeForTokens returned when the source was connected: both
\* tokens, and an expiry that has passed, is within the buffer, or is far off.
StoredExpiries == {0, 62, 120}

StoredCredentials ==
    { [accessToken |-> 0, refreshToken |-> Some(0), expiresAt |-> e] :
         e \in StoredExpiries }

\* The row as the OAuth callback writes it (credentials and expires_at from the
\* same credentials object), under each status; a row without credentials; no
\* row.
TokenRows ==
    {None}
      \cup { Some([status |-> st, credentials_encrypted |-> None,
                   expires_at |-> None]) : st \in Statuses }
      \cup { Some([status |-> st, credentials_encrypted |-> Some(Stringify(c)),
                   expires_at |-> Some(c.expiresAt)]) :
                st \in Statuses, c \in StoredCredentials }

\* The expiry_date of a refresh response: absent, zero, within the buffer, or
\* half an hour off.
ExpiryDates == {None, Some(0), Some(NowMinutes + 3), Some(NowMinutes + 30)}

\* Mutant of refreshAccessToken: the refresh token is taken from the response
\* alone.
refreshAccessTokenAsGranted(refreshToken, credentials) ==
    [accessToken |-> credentials.access_token,
     refreshToken |-> credentials.refresh_token,
     expiresAt |-> IF credentials.expiry_date # None /\ credentials.expiry_date[1] # 0
                   THEN credentials.expiry_date[1]
                   ELSE NowMinutes + DefaultLifetime]

\* refreshAccessToken, lines 760-771, given the response of the authorization
\* server: credentials.refresh_token ?? refreshToken, and the default lifetime
\* when expiry_date is absent or zero.
refreshAccessToken(refreshToken, credentials) ==
    [accessToken |-> credentials.access_token,
     refreshToken |-> IF credentials.refresh_token # None
                      THEN credentials.refresh_token
                      ELSE refreshToken,
     expiresAt |-> IF credentials.expiry_date # None /\ credentials.expiry_date[1] # 0
                   THEN credentials.expiry_date[1]
                   ELSE NowMinutes + DefaultLifetime]

\* getAuthenticatedClient of a fetch calls getValidAccessToken.
GetValidAccessTokenRequest(p) ==
    /\ Free(p)
    /\ Begin(p, [NoCall EXCEPT !.op = "token"], "tk_select")

\* Lines 780-820 up to the first await of the refresh: the row is selected; the
\* call throws if there is none, if it has no credentials or if its status is
\* not "active"; a token that is not about to expire is returned as it is.
TkSelect(p) ==
    /\ pc[p] = "tk_select"
    /\ IF tokenRow = None
       THEN Throw(p, "Error") /\ token' = [token EXCEPT ![p] = NoToken]
       ELSE IF tokenRow[1].credentials_encrypted = None
       THEN Throw(p, "Error") /\ token' = [token EXCEPT ![p] = NoToken]
       ELSE IF tokenRow[1].status # "active"
       THEN Throw(p, "Error") /\ token' = [token EXCEPT ![p] = NoToken]
       ELSE LET credentials == tokenRow[1].credentials_encrypted[1]
                needsRefresh ==
                    ParseDate(credentials.expiresAt) - NowMinutes < RefreshBuffer
            IN  /\ token' = [token EXCEPT ![p] =
                                [credentials |-> Some(credentials),
                                 newCredentials |-> None]]
                /\ IF needsRefresh
                   THEN Goto(p, "tk_refresh") /\ UNCHANGED result
                   ELSE /\ Goto(p, "done")
                        /\ result' = [result EXCEPT ![p] =
                                         Returned(Some(credentials.accessToken))]
    /\ UNCHANGED <<dbVars, files, clock, calls, tz, args, ret, listed, tokenRow,
                   issued, call, localVars>>

\* Line 804: the authorization server answers the refresh with a new access
\* token, with or without a new refresh token and an expiry date.
TkRefresh(p) ==
    /\ pc[p] = "tk_refresh"
    /\ \E rt \in {None, Some(issued + 1)}, exp \in ExpiryDates :
          token' = [token EXCEPT ![p].newCredentials =
                       Some(refreshAccessToken(
                               token[p].credentials[1].refreshToken,
                               [access_token |-> issued + 1, refresh_token |-> rt,
                                expiry_date |-> exp]))]
    /\ issued' = issued + 1
    /\ Goto(p, "tk_update")
    /\ UNCHANGED <<dbVars, files, clock, calls, tz, args, ret, listed, tokenRow,
                   call, localVars, result>>

\* The refresh is refused, or its answer has no access token (lines 757-761).
TkRefreshFails(p) ==
    /\ pc[p] = "tk_refresh"
    /\ Throw(p, "Error")
    /\ UNCHANGED <<dbVars, files, clock, calls, helperVars, call, localVars>>

\* Lines 807-817: one UPDATE writes the new credentials and their expiry to the
\* row, if it is there, and the new access token is returned.
TkUpdate(p) ==
    /\ pc[p] = "tk_update"
    /\ LET newCredentials == token[p].newCredentials[1] IN
       /\ tokenRow' =
             IF tokenRow = None
             THEN None
             ELSE Some([tokenRow[1] EXCEPT
                           !.credentials_encrypted = Some(Stringify(newCredentials)),
                           !.expires_at = Some(newCredentials.expiresAt)])
       /\ result' = [result EXCEPT ![p] = Returned(Some(newCredentials.accessToken))]
    /\ Goto(p, "done")
    /\ UNCHANGED <<dbVars, files, clock, calls, tz, args, ret, listed, token, issued,
                   call, localVars>>

\* The data source is as it was connected, under any status.
InitToken ==
    /\ clients = Clients
    /\ dataSource = [c \in Clients |-> "connected"]
    /\ snapshots = {}
    /\ nextId = 1
    /\ files = [f \in Paths |-> NoFile]
    /\ clock = 1
    /\ calls = 0
    /\ deletedIds = {}
    /\ pc = [p \in Procs |-> "idle"]
    /\ call = [p \in Procs |-> NoCall]
    /\ existing = [p \in Procs |-> None]
    /\ metrics = [p \in Procs |-> None]
    /\ snapshotData = [p \in Procs |-> None]
    /\ storagePath = [p \in Procs |-> None]
    /\ snapshotId = [p \in Procs |-> None]
    /\ result = [p \in Procs |-> NoResult]
    /\ tz = 0
    /\ args = None
    /\ ret = None
    /\ listed = [p \in Procs |-> NothingListed]
    /\ tokenRow \in TokenRows
    /\ token = [p \in Procs |-> NoToken]
    /\ issued = 0

NextToken ==
    \E p \in Procs :
        \/ GetValidAccessTokenRequest(p)
        \/ TkSelect(p)
        \/ TkRefresh(p)
        \/ TkRefreshFails(p)
        \/ TkUpdate(p)

SpecToken == InitToken /\ [][NextToken]_vars

----------------------------------------------------------------------------
(* Properties *)

Key(p) == <<call[p].clientId, Date(p)>>

\* Request p is a snapshot-route generation that returned a summary.
GenerateReturned(p) ==
    call[p].op = "generate" /\ pc[p] = "done" /\ result[p].status = "ok"

\* Request p is a snapshot-route generation that threw.
GenerateThrew(p) == call[p].op = "generate" /\ pc[p] = "failed"

\* p is a first-time generation: no regenerate flag.
FirstTime(p) == call[p].op = "generate" /\ ~call[p].regenerate

\* C1: when a row exists for (clientId, snapshotDate) and regenerate is false,
\* generate fails with a Conflict error and leaves the blob store and the
\* snapshots table as they were.
C1_ConflictLeavesStateUntouched ==
    [][\A p \in Procs :
          (pc[p] = "g_existing" /\ pc'[p] = "failed")
             => /\ result'[p].error = "ConflictError"
                /\ files' = files
                /\ snapshots' = snapshots]_vars

\* C2: there is at most one snapshots row per (client_id, snapshot_date), and
\* no two rows share an id.
C2_OneRowPerClientMonth ==
    \A r1 \in snapshots, r2 \in snapshots :
        (r1.id = r2.id \/ (r1.client_id = r2.client_id
                            /\ r1.snapshot_date = r2.snapshot_date))
            => r1 = r2

\* C2 witness: a row is in the table and an insert for its key was rejected.
C2_Witness ==
    \E p \in Procs :
        /\ GenerateThrew(p)
        /\ result[p].error = "unique_violation"
        /\ Cardinality(RowsOf(call[p].clientId, Date(p))) = 1

\* C3: of two first-time generations of the same (clientId, month) at most one
\* returns a summary, unless the row of one was deleted in between.
C3_AtMostOneFirstTimeWinner ==
    \A p \in Procs, q \in Procs :
        (/\ p # q
         /\ Key(p) = Key(q)
         /\ FirstTime(p) /\ FirstTime(q)
         /\ GenerateReturned(p) /\ GenerateReturned(q))
            => (result[p].summary[1].id \in deletedIds
                \/ result[q].summary[1].id \in deletedIds)

\* C3 witness: two first-time generations of one month both passed the
\* existence check; one returned a summary, the other lost the uniqueness race.
C3_Witness ==
    \E p \in Procs, q \in Procs :
        /\ p # q
        /\ Key(p) = Key(q)
        /\ FirstTime(p) /\ FirstTime(q)
        /\ GenerateReturned(p)
        /\ GenerateThrew(q)
        /\ result[q].error = "unique_violation"

\* C4: when two first-time generations of one month race and one fails (here: by
\* losing the uniqueness race), the blob and the row's metricsSummary are the
\* ones the successful caller produced.
C4_LoserKeepsWinnersResult ==
    \A p \in Procs, q \in Procs :
        (/\ p # q
         /\ Key(p) = Key(q)
         /\ FirstTime(p) /\ FirstTime(q)
         /\ GenerateReturned(p)
         /\ GenerateThrew(q)
         /\ result[q].error = "unique_violation"
         /\ RowsById(result[p].summary[1].id) # {})
            => /\ files[SnapshotFile(call[p].clientId, Date(p))]
                     = JsonFile(snapshotData[p][1])
               /\ \A r \in RowsById(result[p].summary[1].id) :
                     r.metrics_summary = MetricsSummaryOf(snapshotData[p][1])

\* C5: a generation reaches its metadata write only by a blob write that
\* completed (the blob then holds this call's artifact); a failed blob write ends
\* the call with the snapshots table unchanged, and the table is changed by a
\* generation only from the metadata write.
C5_MetadataAfterBlob ==
    [][\A p \in Procs :
          /\ (pc[p] # "g_upsert" /\ pc'[p] = "g_upsert")
                => /\ pc[p] = "g_write"
                   /\ storagePath'[p] = Some(SnapshotFile(call[p].clientId, Date(p)))
                   /\ files'[SnapshotFile(call[p].clientId, Date(p))]
                         = JsonFile(snapshotData[p][1])
          /\ (pc[p] \in {"g_save", "g_write"}
                /\ pc'[p] \notin {"g_save", "g_write", "g_upsert"})
                => snapshots' = snapshots /\ pc'[p] = "failed"
          /\ (pc[p] \in {"g_client", "g_existing", "g_fetch", "g_save", "g_write"}
                /\ pc'[p] # pc[p])
                => snapshots' = snapshots]_vars

\* C5 witness: a blob write failed half-way and no metadata row was written.
C5_Witness ==
    \E p \in Procs :
        /\ GenerateThrew(p)
        /\ result[p].error = "StorageError"
        /\ files[SnapshotFile(call[p].clientId, Date(p))] = PartialFile
        /\ snapshots = {}

\* C6: every row's storage_path refers to a blob that exists in content storage
\* (stated for the states in which no request is in flight).
C6_RowHasBlob ==
    Quiescent => \A r \in snapshots : files[r.storage_path].kind # "none"

\* No request of the slots ended by a failure of the storage, the database or
\* the upstream.
NoOutage ==
    \A p \in Procs :
        result[p].error \notin {"StorageError", "DatabaseError", "UpstreamError"}

\* C7: a row's metricsSummary is the headline projection of the artifact its
\* storagePath points to (stated for the states in which no request is in
\* flight, no outage occurred and the blob is a complete artifact).
C7_SummaryIsProjectionOfBlob ==
    (Quiescent /\ NoOutage) =>
        \A r \in snapshots :
            files[r.storage_path].kind = "json"
                => r.metrics_summary = MetricsSummaryOf(files[r.storage_path].data[1])

\* C8: a regeneration of an existing month returns hasPdf = false, unless the
\* stored PDF was rendered from the regenerated artifact.
C8_RegenerateClearsStalePdf ==
    \A p \in Procs :
        (GenerateReturned(p) /\ call[p].regenerate /\ existing[p] # None)
            => (result[p].summary[1].hasPdf
                   => files[PdfFile(call[p].clientId, Date(p))]
                         = PdfDoc(snapshotData[p][1]))

\* The ga4 block that the metrics fetched by request p determine.
FreshGa4(p) ==
    IF metrics[p] = None
    THEN None
    ELSE LET c == metrics[p][1].current
             v == metrics[p][1].previous
         IN  Some([propertyId |-> "prop",
                   current |-> c,
                   previous |-> v,
                   changes |->
                      [sessions |-> calculateChange(c.sessions, v.sessions),
                       users |-> calculateChange(c.users, v.users),
                       newUsers |-> calculateChange(c.newUsers, v.newUsers),
                       pageviews |-> calculateChange(c.pageviews, v.pageviews),
                       avgSessionDuration |->
                          calculateChange(c.avgSessionDuration, v.avgSessionDuration),
                       bounceRate |-> calculateChange(c.bounceRate, v.bounceRate)]])

FreshSummary(p) ==
    IF metrics[p] = None
    THEN EmptySummary
    ELSE [sessions |-> metrics[p][1].current.sessions,
          users |-> metrics[p][1].current.users,
          pageviews |-> metrics[p][1].current.pageviews]

\* C9: a regeneration of an existing month writes a blob whose source block is
\* built from the metrics fetched during that call, and writes a metricsSummary
\* holding the current-period figures fetched during that call.
C9_RegenerateUsesFreshMetrics ==
    [][\A p \in Procs :
          (Regenerate(p) /\ existing[p] # None)
             => /\ (pc[p] = "g_write" /\ pc'[p] = "g_upsert")
                   => /\ files'[SnapshotFile(call[p].clientId, Date(p))].kind = "json"
                      /\ files'[SnapshotFile(call[p].clientId, Date(p))].data[1].ga4
                            = FreshGa4(p)
                /\ (pc[p] = "g_upsert" /\ pc'[p] = "g_reselect")
                   => \A r \in snapshots' :
                         r.id = existing[p][1] => r.metrics_summary = FreshSummary(p)]_vars

\* C9 witness: a regeneration returned after replacing an artifact whose
\* previous-period figures differ from the ones it fetched.
C9_Witness ==
    \E p \in Procs, q \in Procs :
        /\ p # q
        /\ GenerateReturned(p) /\ call[p].regenerate /\ existing[p] # None
        /\ GenerateReturned(q) /\ Key(q) = Key(p)
        /\ metrics[p] # None /\ metrics[q] # None
        /\ metrics[p][1].previous # metrics[q][1].previous
        /\ metrics[p][1].current # metrics[q][1].current
        /\ files[SnapshotFile(call[p].clientId, Date(p))] = JsonFile(snapshotData[p][1])
        /\ \A r \in RowsById(existing[p][1]) : r.metrics_summary = FreshSummary(p)

\* C10: a generation does not fail because the metric fetch of the connected
\* source failed.
C10_FetchFailureDegrades ==
    \A p \in Procs : pc[p] = "failed" => result[p].error # "UpstreamError"

\* Request p has started the fetches of its generation (and with them the
\* credential refresh of fetchGA4Metrics): it waits for them, or they resolved,
\* or they rejected.
FetchStarted(p) ==
    \/ pc[p] = "g_fetch"
    \/ metrics[p] # None
    \/ (pc[p] = "failed" /\ result[p].error = "UpstreamError")

\* generateSnapshot of request p was rejected by its existence check.
RejectedAsExisting(p) ==
    /\ call[p].op \in {"generate", "report"}
    /\ pc[p] = "failed"
    /\ result[p].error = "ValidationError"

\* C11: a generation rejected because a row exists for the month and regenerate
\* is false has started no upstream fetch.
C11_RejectedBeforeFetch ==
    \A p \in Procs : RejectedAsExisting(p) => ~FetchStarted(p)

\* C11 witness: a generation for a client with a connected source was rejected
\* while the row of the month existed.
C11_Witness ==
    \E p \in Procs :
        /\ RejectedAsExisting(p)
        /\ DataSourceOf(call[p].clientId) = "connected"
        /\ RowsOf(call[p].clientId, Date(p)) # {}

\* The request of slot p is one that can start a generation.
StartsGeneration(p) == call[p].op \in {"generate", "preview", "report"}

\* The generation of request p has had no side effect: no fetch was started,
\* the blob of its month is absent and so is the row of its month.
NoSideEffects(p) ==
    /\ ~FetchStarted(p)
    /\ files[SnapshotFile(call[p].clientId, Date(p))] = NoFile
    /\ RowsOf(call[p].clientId, Date(p)) = {}

\* The month of request p starts after the present instant.
FutureMonth(p) ==
    /\ call[p].month \in 1..12
    /\ NewDate(call[p].year, call[p].month - 1, 1) > Now

\* C12: a request of any of the three routes for a month after the current one
\* has no side effect and fails with a validation error.
C12_FutureMonthRejected ==
    \A p \in Procs :
        (StartsGeneration(p) /\ FutureMonth(p))
            => /\ NoSideEffects(p)
               /\ Free(p) => (pc[p] = "failed"
                                /\ result[p].error = "ValidationError")

\* C13: a request of any of the three routes whose month number is outside
\* 1..12 has no side effect and fails with a validation error.
C13_InvalidMonthRejected ==
    \A p \in Procs :
        (StartsGeneration(p) /\ call[p].month \notin 1..12)
            => /\ NoSideEffects(p)
               /\ Free(p) => (pc[p] = "failed"
                                /\ result[p].error = "ValidationError")

\* Request p repeats a generation that failed at its blob write or at its
\* metadata write.
IsRetry(p) == call[p].op = "generate" /\ call[p].retryOf # ""

\* C14: a generation repeated after a failed blob write or metadata write is
\* not rejected (it fails only when storage, the database or the upstream fail
\* again), and when it returns the month has exactly one row, which points at
\* the blob this call wrote.
C14_RetryAfterStorageFailure ==
    \A p \in Procs :
        IsRetry(p)
            => /\ pc[p] = "failed"
                    => result[p].error
                          \in {"StorageError", "DatabaseError", "UpstreamError"}
               /\ pc[p] = "done"
                    => /\ Cardinality(RowsOf(call[p].clientId, Date(p))) = 1
                       /\ \A r \in RowsOf(call[p].clientId, Date(p)) :
                             files[r.storage_path] = JsonFile(snapshotData[p][1])

\* C14 witness: a first-time generation failed at its metadata write, leaving
\* its blob behind, and its repetition inserted the row of the month.
C14_Witness ==
    \E p \in Procs :
        /\ IsRetry(p)
        /\ call[p].retryOf = "DatabaseError"
        /\ ~call[p].regenerate
        /\ existing[p] = None
        /\ pc[p] = "done"
        /\ Cardinality(RowsOf(call[p].clientId, Date(p))) = 1

\* A regeneration of the month whose blob is at path is between its existence
\* check and its return.
RegenerationInFlight(path) ==
    \E q \in Procs :
        /\ Regenerate(q)
        /\ existing[q] # None
        /\ pc[q] \in {"g_fetch", "g_save", "g_write", "g_upsert", "g_reselect"}
        /\ SnapshotFile(call[q].clientId, Date(q)) = path

\* C15: a getSnapshotData that reads the blob while a regeneration of the month
\* is in flight returns a complete artifact.
C15_ReaderSeesWholeArtifact ==
    [][\A p \in Procs :
          (pc[p] = "gd_read" /\ pc'[p] # "gd_read"
             /\ RegenerationInFlight(storagePath[p][1]))
             => /\ pc'[p] = "done"
                /\ result'[p].status = "ok"
                /\ result'[p].summary # None]_vars

\* Request p is a getSnapshotData that returned an artifact.
GetDataReturned(p) ==
    call[p].op = "getData" /\ pc[p] = "done" /\ result[p].status = "ok"

\* C19: no step of getSnapshotData changes content storage or the snapshots
\* table, and what it returns is the content of the blob its row points at, so
\* reads with no generation between them return the same content.
C19_GetDataReadsOnly ==
    [][\A p \in Procs :
          (call[p].op = "getData" /\ pc[p] \in {"gd_select", "gd_read"}
             /\ pc'[p] # pc[p])
             => /\ files' = files
                /\ snapshots' = snapshots
                /\ pc'[p] = "done"
                      => result'[p].summary = files[storagePath[p][1]].data]_vars

\* C19 witness: two reads of the same metadata id returned the same artifact,
\* which is still the content of the blob.
C19_Witness ==
    \E p \in Procs, q \in Procs :
        /\ p # q
        /\ GetDataReturned(p) /\ GetDataReturned(q)
        /\ call[p].id = call[q].id
        /\ result[p].summary = result[q].summary
        /\ result[p].summary # None
        /\ files[storagePath[p][1]].data = result[p].summary
        /\ RowsById(call[p].id[1]) # {}

\* The client id of request p names no client (no row of clients ever had it).
UnknownClient(p) == call[p].clientId \notin Clients

\* The metadata id of request p was never given to a row.
UnknownId(p) == call[p].id # None /\ call[p].id[1] >= nextId

\* C20: a generation for an unknown client goes no further than the client
\* lookup, has no side effect and fails with NotFoundError; a getSnapshotData
\* for an unknown metadata id reads no blob and fails with NotFoundError.
C20_UnknownIsNotFound ==
    \A p \in Procs :
        /\ (call[p].op = "generate" /\ UnknownClient(p))
              => /\ pc[p] \in {"g_client", "failed"}
                 /\ NoSideEffects(p)
                 /\ pc[p] = "failed" => result[p].error = "NotFoundError"
        /\ (call[p].op = "getData" /\ UnknownId(p))
              => /\ pc[p] \in {"gd_select", "failed"}
                 /\ pc[p] = "failed" => result[p].error = "NotFoundError"

\* C20 witness: a generation for an unknown client and a read of an unknown
\* metadata id have both failed.
C20_Witness ==
    \E p \in Procs, q \in Procs :
        /\ call[p].op = "generate" /\ UnknownClient(p)
        /\ pc[p] = "failed" /\ result[p].error = "NotFoundError"
        /\ call[q].op = "getData" /\ UnknownId(q)
        /\ pc[q] = "failed" /\ result[q].error = "NotFoundError"

\* The first-to-last-day range of the calendar month <<y, m>>.
CalendarMonth(y, m) == [startDate |-> <<y, m, 1>>, endDate |-> <<y, m, DaysInMonth(y, m)>>]

\* The number of days of a range, both ends counted.
RangeLength(range) ==
    DaysFromCivil(range.endDate[1], range.endDate[2], range.endDate[3])
      - DaysFromCivil(range.startDate[1], range.startDate[2], range.startDate[3]) + 1

\* C16: getPreviousMonthDateRange(year, month) is the first-to-last-day range of
\* the calendar month before <<year, month>>; it ends one day before the start
\* of getMonthDateRange(year, month) and is as long as that month has days.
C16_PreviousMonthRange ==
    (ret # None /\ ret[1].fn = "getPreviousMonthDateRange")
       => LET y == args[1].year
              m == args[1].month
              py == IF m = 1 THEN y - 1 ELSE y
              pm == IF m = 1 THEN 12 ELSE m - 1
              range == ret[1].value
              start == getMonthDateRange(y, m).startDate
          IN  /\ range = CalendarMonth(py, pm)
              /\ DaysFromCivil(range.endDate[1], range.endDate[2], range.endDate[3]) + 1
                    = DaysFromCivil(start[1], start[2], start[3])
              /\ RangeLength(range) = DaysInMonth(py, pm)

\* C17: getMonthDateRange(year, month) starts on day 1 of the month and ends on
\* its last calendar day.
C17_MonthRange ==
    (ret # None /\ ret[1].fn = "getMonthDateRange")
       => ret[1].value = CalendarMonth(args[1].year, args[1].month)

\* round(x * 100) / 100 of the fraction x, as Math.round rounds.
RoundTo2(x) == Frac((2 * 100 * x.num + x.den) \div (2 * x.den), 100)

\* C18: calculateChange(current, previous) is 100 for a zero base and a positive
\* current, 0 for a zero base and a zero current, and otherwise
\* (current - previous) / previous * 100 rounded to 2 decimal places.
C18_PercentChange ==
    ret # None
       => LET c == args[1].current
              v == args[1].previous
          IN  ret[1] = IF v = 0
                       THEN (IF c > 0 THEN Frac(100, 1) ELSE Frac(0, 1))
                       ELSE RoundTo2(Frac((c - v) * 100, v))

\* C21: every generate call ends, with a summary or with an error, also when
\* the upstream never answers a metric fetch.
C21_GenerateTerminates ==
    \A p \in Procs :
        (call[p].op = "generate" /\ ~Free(p)) ~> (pc[p] \in {"done", "failed"})

\* The artifacts in content storage that hold a source block.
StoredSourceBlocks ==
    { files[f].data[1].ga4[1] :
        f \in { g \in Paths : files[g].kind = "json" /\ files[g].data[1].ga4 # None } }

\* C22: the changes block of a stored source block holds one entry for every
\* tracked metric, each the percentage change of that metric between the
\* previous and the current block of the same artifact.
C22_ChangesCoverTrackedMetrics ==
    \A block \in StoredSourceBlocks :
        /\ DOMAIN block.changes = TrackedMetrics
        /\ \A m \in DOMAIN block.changes :
              block.changes[m] = calculateChange(block.current[m], block.previous[m])

\* The client of request p exists and has no active google_analytics source, or
\* an active one without a selected property.
NotConnected(p) ==
    /\ call[p].clientId \in clients
    /\ dataSource[call[p].clientId] \in {"none", "no_account"}

\* C23: a generation for a client without a connected source starts no upstream
\* fetch and does not fail for the upstream; its artifact has no source block
\* and the summary it returns holds no figures.
C23_NoSourceNoBlock ==
    \A p \in Procs :
        (call[p].op = "generate" /\ NotConnected(p))
            => /\ ~FetchStarted(p)
               /\ snapshotData[p] # None => snapshotData[p][1].ga4 = None
               /\ GenerateReturned(p)
                     => result[p].summary[1].metricsSummary = EmptySummary

\* C23 witness: a generation for a client whose active source has no selected
\* property returned, and the artifact in content storage has no source block.
C23_Witness ==
    \E p \in Procs :
        /\ GenerateReturned(p)
        /\ call[p].clientId \in clients
        /\ dataSource[call[p].clientId] = "no_account"
        /\ files[SnapshotFile(call[p].clientId, Date(p))].kind = "json"
        /\ files[SnapshotFile(call[p].clientId, Date(p))].data[1].ga4 = None
        /\ \A r \in RowsOf(call[p].clientId, Date(p)) :
              r.metrics_summary = EmptySummary

\* The files in content storage under the directory of a client.
FilesOf(clientId) ==
    { f \in Paths : SubSeq(f, 1, 2) = getClientPath(clientId) /\ files[f] # NoFile }

\* C25: once a deleteClient has returned, the client has no row in the
\* snapshots table and no file in content storage, whatever generation ran
\* next to the deletion.
C25_DeleteClientLeavesNothing ==
    \A p \in Procs :
        (call[p].op = "deleteClient" /\ pc[p] = "done")
            => /\ { r \in snapshots : r.client_id = call[p].clientId } = {}
               /\ FilesOf(call[p].clientId) = {}

\* The columns of a row that a regeneration is not to touch.
KeptColumns(r) ==
    [id |-> r.id, client_id |-> r.client_id, snapshot_date |-> r.snapshot_date,
     pdf_storage_path |-> r.pdf_storage_path, created_at |-> r.created_at,
     expires_at |-> r.expires_at]

\* C27: a step of a generation that found a row for its month changes nothing
\* of the snapshots table but storage_path, metrics_summary and
\* template_version of that row: the other columns of the row, the other rows
\* and the number of rows stay as they are.
C27_RegenerationFrame ==
    [][\A p \in Procs :
          (/\ call[p].op = "generate"
           /\ pc[p] \in {"g_fetch", "g_save", "g_write", "g_upsert", "g_reselect"}
           /\ existing[p] # None
           /\ pc'[p] # pc[p])
             => /\ { r.id : r \in snapshots' } = { r.id : r \in snapshots }
                /\ Cardinality(snapshots') = Cardinality(snapshots)
                /\ \A r \in snapshots :
                      IF r.id = existing[p][1]
                      THEN \E r2 \in snapshots' : KeptColumns(r2) = KeptColumns(r)
                      ELSE r \in snapshots']_vars

\* C27 witness: a regeneration returned after replacing the figures of the row
\* another generation inserted; the row still has the id and the retention
\* boundary of its insert.
C27_Witness ==
    \E p \in Procs, q \in Procs :
        /\ p # q
        /\ GenerateReturned(p) /\ call[p].regenerate /\ existing[p] # None
        /\ GenerateReturned(q) /\ Key(q) = Key(p)
        /\ result[q].summary[1].id = existing[p][1]
        /\ result[q].summary[1].metricsSummary # result[p].summary[1].metricsSummary
        /\ \E r \in snapshots :
              /\ r.id = existing[p][1]
              /\ r.metrics_summary = result[p].summary[1].metricsSummary
              /\ r.expires_at = r.created_at + RetentionHours
              /\ r.created_at < clock
        /\ Cardinality(snapshots) = 1

\* The month d of client c has a row whose expires_at has passed.
ExpiredRow(c, d) == \E r \in RowsOf(c, d) : r.expires_at < clock

\* C26: a snapshot whose expires_at has passed is eventually deleted, its row
\* and its artifact.
C26_ExpiredIsSwept ==
    \A c \in Clients, y \in Years, m \in Months :
        LET d == snapshotDateOf(y, m) IN
        ExpiredRow(c, d)
            ~> (RowsOf(c, d) = {} /\ files[SnapshotFile(c, d)] = NoFile)

\* The value is a date range.
IsRange(v) == DOMAIN v = {"startDate", "endDate"}

\* C24: getMonthDateRange and getPreviousMonthDateRange return no range for a
\* month number outside 1..12.
C24_InvalidMonthRaises ==
    (ret # None /\ args[1].month \notin 1..12) => ~IsRange(ret[1].value)

\* Request p is one of the four snapshot operations, sent by a user who did not
\* create the client it names (or the client of the row it names).
Foreign(p) ==
    \/ /\ call[p].op \in {"generate", "list"}
       /\ call[p].clientId \in clients
       /\ CreatedBy(call[p].clientId) # call[p].userId
    \/ /\ call[p].op \in {"getSummary", "getData"}
       /\ \E r \in RowsById(call[p].id[1]) : CreatedBy(r.client_id) # call[p].userId

\* C28: the first step of a snapshot operation on a client of another user ends
\* it with NotFoundError; it returns nothing and leaves content storage and the
\* snapshots table as they were.
C28_ForeignClientNotFound ==
    [][\A p \in Procs :
          (Foreign(p) /\ ~Free(p) /\ pc'[p] # pc[p])
             => /\ pc'[p] = "failed"
                /\ result'[p] = Thrown("NotFoundError")
                /\ files' = files
                /\ snapshots' = snapshots]_vars

\* C28 witness: the artifact of a client was asked for by another user while its
\* row and its blob existed, and the request failed with NotFoundError.
C28_Witness ==
    \E p \in Procs :
        /\ call[p].op = "getData"
        /\ Foreign(p)
        /\ pc[p] = "failed"
        /\ result[p] = Thrown("NotFoundError")
        /\ \E r \in RowsById(call[p].id[1]) : files[r.storage_path].kind = "json"

\* C29: a report request reaches the update of pdf_storage_path only by a
\* render and a PDF write that completed (the file of its client and month then
\* holds the PDF of the artifact it loaded); a failed render or write ends the
\* request with the snapshots table unchanged; and the pdf_storage_path of a row
\* changes only in that update, to the path of that file.
C29_PdfPathAfterPdfWrite ==
    [][/\ \A p \in Procs :
             /\ (pc[p] # "rp_update" /\ pc'[p] = "rp_update")
                   => /\ pc[p] = "rp_render"
                      /\ files'[PdfFile(call[p].clientId, Date(p))]
                            = PdfDoc(snapshotData[p][1])
             /\ (pc[p] = "rp_render" /\ pc'[p] \notin {"rp_render", "rp_update"})
                   => snapshots' = snapshots /\ pc'[p] = "failed"
       /\ \A r \in snapshots, r2 \in snapshots' :
             (r.id = r2.id /\ r2.pdf_storage_path # r.pdf_storage_path)
                => \E p \in Procs :
                      /\ pc[p] = "rp_update" /\ pc'[p] = "done"
                      /\ snapshotId[p] = Some(r.id)
                      /\ r.client_id = call[p].clientId
                      /\ r.snapshot_date = Date(p)
                      /\ r2.pdf_storage_path
                            = Some(PdfFile(call[p].clientId, Date(p)))
       /\ \A r2 \in snapshots' :
             (\A r \in snapshots : r.id # r2.id) => r2.pdf_storage_path = None]_vars

\* C29 witness: the PDF write of a report request failed half-way, the request
\* ended with StorageError, and the row of its month still has no
\* pdf_storage_path.
C29_Witness ==
    \E p \in Procs :
        /\ call[p].op = "report"
        /\ pc[p] = "failed"
        /\ result[p] = Thrown("StorageError")
        /\ files[PdfFile(call[p].clientId, Date(p))] = PartialFile
        /\ snapshotId[p] # None
        /\ \E r \in snapshots :
              r.id = snapshotId[p][1] /\ r.pdf_storage_path = None

\* The stored credentials have a refresh token and the row's expires_at is
\* their expiresAt.
StoredCredentialsWhole ==
    (tokenRow # None /\ tokenRow[1].credentials_encrypted # None)
       => LET c == tokenRow[1].credentials_encrypted[1] IN
          /\ c.refreshToken # None
          /\ tokenRow[1].expires_at = Some(ParseDate(c.expiresAt))

\* C30: while getValidAccessToken calls on one data source interleave, its
\* stored credentials keep a refresh token and its expires_at stays the
\* expiresAt of the stored credentials; and a call that finds the status of the
\* row other than "active" fails at once, with no token issued and the row as it
\* was.
C30_TokenRowStaysWhole ==
    /\ []StoredCredentialsWhole
    /\ [][\A p \in Procs :
             (/\ call[p].op = "token" /\ pc[p] = "tk_select" /\ pc'[p] # pc[p]
              /\ tokenRow # None /\ tokenRow[1].status # "active")
                => /\ pc'[p] = "failed"
                   /\ tokenRow' = tokenRow
                   /\ issued' = issued]_vars

\* C30 witness: two calls read the same expired credentials and both refreshed
\* them; the row holds the credentials of one of the two answers, which came
\* without a refresh token, and they keep the refresh token the source was
\* connected with.
C30_Witness ==
    \E p, q \in Procs :
        /\ p # q
        /\ pc[p] = "done" /\ pc[q] = "done"
        /\ token[p].newCredentials # None /\ token[q].newCredentials # None
        /\ token[p].credentials = token[q].credentials
        /\ token[p].newCredentials[1].accessToken
              # token[q].newCredentials[1].accessToken
        /\ tokenRow[1].credentials_encrypted
              = Some(Stringify(token[q].newCredentials[1]))
        /\ tokenRow[1].credentials_encrypted[1].refreshToken = Some(0)
        /\ result[p] = Returned(Some(token[p].newCredentials[1].accessToken))

====
